---- MODULE Spec2Model ----
(***************************************************************************)
(* healthkube (src/src/main.rs): reconciles the CronJobs of each           *)
(* context:namespace target with checks of a Healthchecks instance and     *)
(* writes the check id back into the jobs' container environments.         *)
(*                                                                         *)
(* Strings that the program splits or joins are sequences of atoms: a job  *)
(* name is a sequence such as <<"sales", "-", "au">>, "-" being the        *)
(* delimiter atom, and a tag string is a sequence in which " " is the      *)
(* separator atom.  Option<T> is a sequence of length 0 (None) or 1.       *)
(***************************************************************************)
EXTENDS Integers, Sequences, FiniteSets, TLC

\* Longest list of jobs a namespace holds, and largest --rank tried.
MaxJobs == 2
MaxRank == 2

\* The counter type of common_tags is u8.
U8Modulus == 256

None == <<>>
Some(v) == <<v>>

DASH == "-"
SPACE == " "

\* The literal of the retain closure, and another name of the same family.
RetainName ==
  <<"sales", DASH, "au", DASH, "job", DASH, "cleanup", DASH, "shared", DASH, "products", DASH, "job">>
OtherName ==
  <<"sales", DASH, "au", DASH, "job", DASH, "cleanup", DASH, "other", DASH, "products", DASH, "job">>

JOB == <<"job">>

Range(s) == {s[x] : x \in DOMAIN s}

(***************************************************************************)
(* str::split, Iterator::intersperse and the collect into a String.        *)
(***************************************************************************)
RECURSIVE SplitAcc(_, _, _, _, _)
SplitAcc(s, d, p, cur, acc) ==
  IF p > Len(s) THEN Append(acc, cur)
  ELSE IF s[p] = d THEN SplitAcc(s, d, p + 1, <<>>, Append(acc, cur))
  ELSE SplitAcc(s, d, p + 1, Append(cur, s[p]), acc)

Split(s, d) == SplitAcc(s, d, 1, <<>>, <<>>)

RECURSIVE Intersperse(_, _)
Intersperse(items, sep) ==
  IF Len(items) <= 1 THEN items
  ELSE <<Head(items), sep>> \o Intersperse(Tail(items), sep)

\* Concatenation of the pieces, first to last (the halves keep the
\* evaluation shallow on long lists).
RECURSIVE Collect(_)
Collect(pieces) ==
  IF pieces = <<>> THEN <<>>
  ELSE IF Len(pieces) = 1 THEN pieces[1]
  ELSE LET half == Len(pieces) \div 2
       IN  Collect(SubSeq(pieces, 1, half)) \o Collect(SubSeq(pieces, half + 1, Len(pieces)))

(***************************************************************************)
(* describe: the (name, schedule, containers) view of a CronJob.           *)
(***************************************************************************)
describe(job) ==
  IF job.name = None THEN None
  ELSE IF job.spec = None THEN None
  ELSE IF job.spec[1].job_template.spec = None THEN None
  ELSE IF job.spec[1].job_template.spec[1].template.spec = None THEN None
  ELSE Some([name |-> job.name[1],
             schedule |-> job.spec[1].schedule,
             containers |-> job.spec[1].job_template.spec[1].template.spec[1].containers])

\* The job after a write through the &mut Vec<Container> that describe hands out.
WithContainers(job, cs) ==
  [job EXCEPT !.spec = Some([@[1] EXCEPT !.job_template.spec =
      Some([@[1] EXCEPT !.template.spec = Some([@[1] EXCEPT !.containers = cs])])])]

\* jobs.retain(..): a job stays when it has a name and the name is the literal.
RetainJob(job) ==
  IF job.name # None THEN job.name[1] = RetainName ELSE FALSE

Retain(js) == SelectSeq(js, RetainJob)

\* jobs.iter_mut().filter_map(describe): positions in jobs of the described jobs.
Definitions(js) ==
  SelectSeq([k \in DOMAIN js |-> k], LAMBDA k : describe(js[k]) # None)

(***************************************************************************)
(* common_tags: the fold into HashMap<&str, u8>, remove("job"), retain.    *)
(* The map is a function on its keys.  wrapped records that some += 1      *)
(* left the range of u8.                                                   *)
(***************************************************************************)
Segments(js, defs) ==
  Collect([x \in 1..Len(defs) |-> Split(describe(js[defs[x]])[1].name, DASH)])

\* The closure of the fold: *acc.entry(item).or_default() += 1.
CountItem(acc, item) ==
  LET old == IF item \in DOMAIN acc.map THEN acc.map[item] ELSE 0
      new == (old + 1) % U8Modulus
  IN  [map |-> (item :> new) @@ acc.map,
       wrapped |-> acc.wrapped \/ old + 1 >= U8Modulus]

\* The fold over items[lo..hi], left to right from acc (the halves keep the
\* evaluation shallow on long lists).
RECURSIVE CountFold(_, _, _, _)
CountFold(items, lo, hi, acc) ==
  IF lo > hi THEN acc
  ELSE IF lo = hi THEN CountItem(acc, items[lo])
  ELSE LET mid == (lo + hi) \div 2
           left == CountFold(items, lo, mid, acc)
       IN  \* the left half is counted before the right half starts
           IF left.wrapped \in BOOLEAN THEN CountFold(items, mid + 1, hi, left) ELSE left

EmptyMap == [s \in {} |-> 0]

Restrict(m, keys) == [s \in keys |-> m[s]]

RankRetain(m, rank) ==
  IF rank > 0 THEN Restrict(m, {s \in DOMAIN m : m[s] >= rank}) ELSE m

\* Lines 189-203 without common_tags.remove("job").
CommonTagsKeepingJob(items, rank) ==
  LET counted == CountFold(items, 1, Len(items), [map |-> EmptyMap, wrapped |-> FALSE])
  IN  [map |-> RankRetain(counted.map, rank), wrapped |-> counted.wrapped]

CommonTags(items, rank) ==
  LET counted == CountFold(items, 1, Len(items), [map |-> EmptyMap, wrapped |-> FALSE])
      removed == Restrict(counted.map, DOMAIN counted.map \ {JOB})
  IN  [map |-> RankRetain(removed, rank), wrapped |-> counted.wrapped]

\* Lines 207-209 without the filter on common_tags.
TagFilterKeepingAll(name, common) == Split(name, DASH)

\* Lines 207-211: the tags of one name under a vocabulary.
TagFilter(name, common) ==
  SelectSeq(Split(name, DASH), LAMBDA segment : segment \in DOMAIN common)

Tags(name, common) == Collect(Intersperse(TagFilter(name, common), <<SPACE>>))

(***************************************************************************)
(* The annotation closure of containers.retain_mut (lines 249-276).        *)
(***************************************************************************)
\* Iterator::find: the position of the first entry named key, 0 when none.
FindEnv(env, key) ==
  LET hits == {p \in DOMAIN env : env[p].name = key}
  IN  IF hits = {} THEN 0 ELSE CHOOSE p \in hits : \A q \in hits : p <= q

AnnotateContainer(c, key, check_id) ==
  IF c.env = None THEN [keep |-> FALSE, container |-> c]
  ELSE LET env == c.env[1]
           p == FindEnv(env, key)
           item == IF p = 0 THEN None ELSE env[p].value
       IN  IF item # None
           THEN LET need_to_update == item[1] # check_id
                IN  [keep |-> need_to_update,
                     container |->
                       IF need_to_update
                       THEN [c EXCEPT !.env = Some([env EXCEPT ![p].value = Some(check_id)])]
                       ELSE c]
           ELSE [keep |-> TRUE,
                 container |->
                   [c EXCEPT !.env = Some(Append(env, [name |-> key, value |-> Some(check_id)]))]]

RECURSIVE RetainMut(_, _, _)
RetainMut(cs, key, check_id) ==
  IF cs = <<>> THEN <<>>
  ELSE LET r == AnnotateContainer(Head(cs), key, check_id)
       IN  (IF r.keep THEN <<r.container>> ELSE <<>>) \o RetainMut(Tail(cs), key, check_id)

(***************************************************************************)
(* The values the two services hold.                                       *)
(***************************************************************************)
EnvKey == "HC_ID"

KX == [name |-> EnvKey, value |-> Some(1)]
KY == [name |-> EnvKey, value |-> Some(2)]
KN == [name |-> EnvKey, value |-> None]
OV == [name |-> "OTHER", value |-> Some(9)]

Container(cname, env) == [name |-> cname, env |-> env]

ContainerLists ==
  { <<Container("c1", None)>>,
    <<Container("c1", Some(<<KX>>))>>,
    <<Container("c1", Some(<<OV, KY>>))>>,
    <<Container("c1", Some(<<KN>>))>>,
    <<Container("c1", Some(<<KX>>)), Container("c2", Some(<<OV>>))>>,
    <<Container("c1", None), Container("c2", Some(<<>>))>> }

PodSpec(cs) == [containers |-> cs]
JobSpec(pod) == [template |-> [spec |-> pod]]
CronJobSpec(schedule, jobspec) == [schedule |-> schedule, job_template |-> [spec |-> jobspec]]

Described(name, schedule, cs) ==
  [name |-> name,
   spec |-> Some(CronJobSpec(schedule, Some(JobSpec(Some(PodSpec(cs))))))]

JobShapes ==
  { Described(Some(RetainName), "@hourly", cs) : cs \in ContainerLists }
  \cup
  { Described(None, "@daily", <<Container("c1", Some(<<>>))>>),
    Described(Some(OtherName), "@daily", <<Container("c1", Some(<<>>))>>),
    [name |-> Some(RetainName), spec |-> None],
    [name |-> Some(RetainName), spec |-> Some(CronJobSpec("@daily", None))],
    [name |-> Some(RetainName), spec |-> Some(CronJobSpec("@daily", Some(JobSpec(None))))] }

\* A namespace's list: jobs in the order List returns them, uid = position.
WithUid(shape, uid) == [uid |-> uid, name |-> shape.name, spec |-> shape.spec]

Populations ==
  UNION { { [k \in 1..len |-> WithUid(f[k], k)] : f \in [1..len -> JobShapes] } : len \in 0..MaxJobs }

RetainCheck == [name |-> RetainName, id |-> 1]
LegacyCheck == [name |-> <<"legacy">>, id |-> 2]
FirstFreshId == 3

TargetLists == { << [context |-> "ctx", namespaces |-> <<"ns1">>] >> }

NamespacesOf(targets) ==
  UNION { Range(targets[x].namespaces) : x \in DOMAIN targets }

Configs ==
  [dry_run : BOOLEAN, clear_existing_checks : BOOLEAN, all_integrations : BOOLEAN,
   env_key : {None, Some(EnvKey)}, rank : 0..MaxRank, targets : TargetLists]

(***************************************************************************)
(* State.                                                                  *)
(***************************************************************************)
VARIABLES
  cfg,          \* Args: the parsed command line
  checks,       \* the checks of the Healthchecks instance, in the order it lists them
  next_id,      \* the id the instance gives the next check it creates
  cluster,      \* namespace -> the CronJobs the cluster holds
  run,          \* which invocation of the program this is
  pc,           \* position in main
  t, n,         \* index of the target and of the namespace within it
  to_delete,    \* the ids still to delete in the for_each of the clear
  listed,       \* the items List returned for the namespace
  jobs,         \* the local Vec<CronJob>
  definitions,  \* positions in jobs of the described jobs
  common_tags,  \* the vocabulary of the namespace
  i, j,         \* position in definitions, position in jobs at write-back
  log,          \* the remote calls and printed lines of this invocation
  failures      \* some remote call of any invocation so far failed

vars ==
  <<cfg, checks, next_id, cluster, run, pc, t, n, to_delete, listed, jobs,
    definitions, common_tags, i, j, log, failures>>

Call(op, ns, uid, name, schedule, tags, job, id, res) ==
  [op |-> op, ns |-> ns, uid |-> uid, name |-> name, schedule |-> schedule,
   tags |-> tags, job |-> job, id |-> id, res |-> res]

ServiceCall(op, id, res) == Call(op, "", 0, <<>>, "", <<>>, None, id, res)

Namespace == cfg.targets[t].namespaces[n]

Init ==
  /\ cfg \in Configs
  /\ checks \in {<<LegacyCheck>>, <<RetainCheck, LegacyCheck>>}
  /\ next_id = FirstFreshId
  /\ cluster \in [NamespacesOf(cfg.targets) -> Populations]
  /\ run = 1
  /\ pc = "integrations"
  /\ t = 1
  /\ n = 1
  /\ to_delete = <<>>
  /\ listed = <<>>
  /\ jobs = <<>>
  /\ definitions = <<>>
  /\ common_tags = EmptyMap
  /\ i = 1
  /\ j = 1
  /\ log = <<>>
  /\ failures = FALSE

(***************************************************************************)
(* Positions of main.  A frame is the position together with the locals of *)
(* the namespace body; the locals keep their last values until the next    *)
(* List overwrites them.                                                   *)
(***************************************************************************)
Cur ==
  [pc |-> pc, t |-> t, n |-> n, listed |-> listed, jobs |-> jobs,
   definitions |-> definitions, common_tags |-> common_tags, i |-> i, j |-> j]

Goto(f) ==
  /\ pc' = f.pc
  /\ t' = f.t
  /\ n' = f.n
  /\ listed' = f.listed
  /\ jobs' = f.jobs
  /\ definitions' = f.definitions
  /\ common_tags' = f.common_tags
  /\ i' = f.i
  /\ j' = f.j

\* An Err returned from main through ?, or a panic of unwrap.
Exit == [Cur EXCEPT !.pc = "failed"]

\* The end of the body of `for namespace in namespaces.split(',')`.
NextNamespace(f) ==
  IF n < Len(cfg.targets[t].namespaces) THEN [f EXCEPT !.pc = "list", !.n = n + 1]
  ELSE IF t < Len(cfg.targets) THEN [f EXCEPT !.pc = "list", !.t = t + 1, !.n = 1]
  ELSE [f EXCEPT !.pc = "done"]

\* After the filter_map(..).count() over definitions: `continue` of a dry
\* run, or the loop `for mut job in jobs`.
AfterDefinitions(f) ==
  IF cfg.dry_run \/ f.jobs = <<>> THEN NextNamespace(f)
  ELSE [f EXCEPT !.pc = "writeback", !.j = 1]

\* After one call of the closure on definitions[i], jobs being js.
AfterClosure(js) ==
  IF i < Len(definitions) THEN [Cur EXCEPT !.jobs = js, !.i = i + 1]
  ELSE AfterDefinitions([Cur EXCEPT !.jobs = js])

\* Lines 290-300 with the namespace listed anew after each job written back.
AfterJobRelisting ==
  IF j < Len(jobs) THEN [Cur EXCEPT !.pc = "list"] ELSE NextNamespace(Cur)

\* After one iteration of `for mut job in jobs`.
AfterJob ==
  IF j < Len(jobs) THEN [Cur EXCEPT !.j = j + 1] ELSE NextNamespace(Cur)

\* Line 133 without the test of dry_run.
AfterIntegrationsIgnoringDryRun ==
  IF cfg.clear_existing_checks
  THEN [Cur EXCEPT !.pc = "get_checks"]
  ELSE [Cur EXCEPT !.pc = "list"]

\* Line 133: where main goes once the integrations are known.
AfterIntegrations ==
  IF ~cfg.dry_run /\ cfg.clear_existing_checks
  THEN [Cur EXCEPT !.pc = "get_checks"]
  ELSE [Cur EXCEPT !.pc = "list"]

(***************************************************************************)
(* Lines 112-131: the channels are read when --all-integrations is given.  *)
(***************************************************************************)
Integrations ==
  /\ pc = "integrations"
  /\ IF cfg.all_integrations
     THEN \E ok \in BOOLEAN :
            /\ log' = Append(log, ServiceCall("ListChannels", 0, IF ok THEN "Ok" ELSE "Err"))
            /\ failures' = (failures \/ ~ok)
            /\ Goto(IF ok THEN AfterIntegrations ELSE Exit)
     ELSE /\ Goto(AfterIntegrations)
          /\ UNCHANGED <<log, failures>>
  /\ UNCHANGED <<cfg, checks, next_id, cluster, run, to_delete>>

(***************************************************************************)
(* Lines 133-145: the clear of all existing checks.                        *)
(***************************************************************************)
\* get_checks()?.into_iter().filter_map(|check| check.id())
CheckIds == [x \in DOMAIN checks |-> checks[x].id]

GetChecks ==
  /\ pc = "get_checks"
  /\ \E ok \in BOOLEAN :
       /\ log' = Append(log, ServiceCall("ListChecks", 0, IF ok THEN "Ok" ELSE "Err"))
       /\ failures' = (failures \/ ~ok)
       /\ IF ok
          THEN /\ to_delete' = CheckIds
               /\ Goto([Cur EXCEPT !.pc = IF CheckIds = <<>> THEN "list" ELSE "delete"])
          ELSE /\ to_delete' = <<>>
               /\ Goto(Exit)
  /\ UNCHANGED <<cfg, checks, next_id, cluster, run>>

\* Lines 140-143 with the Err of delete dropped and main going on.
DeleteFailedIgnored == [Cur EXCEPT !.pc = "list"]

\* Line 143: unwrap() on the Err of delete panics.
DeleteFailed == Exit

DeleteCheck ==
  /\ pc = "delete"
  /\ \E ok \in BOOLEAN :
       /\ log' = Append(log, ServiceCall("DeleteCheck", Head(to_delete), IF ok THEN "Ok" ELSE "Err"))
       /\ failures' = (failures \/ ~ok)
       /\ IF ok
          THEN /\ checks' = SelectSeq(checks, LAMBDA c : c.id # Head(to_delete))
               /\ to_delete' = Tail(to_delete)
               /\ Goto([Cur EXCEPT !.pc = IF Tail(to_delete) = <<>> THEN "list" ELSE "delete"])
          ELSE /\ checks' = checks
               /\ to_delete' = <<>>
               /\ Goto(DeleteFailed)
  /\ UNCHANGED <<cfg, next_id, cluster, run>>

(***************************************************************************)
(* Lines 170-203: list, retain, describe and the vocabulary.               *)
(***************************************************************************)
\* Lines 185-203 with the vocabulary kept from one namespace to the next.
ListedMergingVocabulary(items, vocabulary) ==
  LET js == Retain(items)
      defs == Definitions(js)
      merged == [s \in DOMAIN vocabulary \cup DOMAIN common_tags |->
                   IF s \in DOMAIN vocabulary THEN vocabulary[s] ELSE common_tags[s]]
      f == [Cur EXCEPT !.listed = items, !.jobs = js, !.definitions = defs,
                       !.common_tags = merged, !.i = 1, !.j = 1]
  IN  IF defs # <<>> THEN [f EXCEPT !.pc = "reconcile"] ELSE AfterDefinitions(f)

Listed(items, vocabulary) ==
  LET js == Retain(items)
      defs == Definitions(js)
      f == [Cur EXCEPT !.listed = items, !.jobs = js, !.definitions = defs,
                       !.common_tags = vocabulary, !.i = 1, !.j = 1]
  IN  IF defs # <<>> THEN [f EXCEPT !.pc = "reconcile"] ELSE AfterDefinitions(f)

\* Line 175 with an Err of list skipped over instead of returned.
ListFailedSkippingNamespace == NextNamespace(Cur)

\* Line 175: `?` on the Err of kube_api.list returns it from main.
ListFailed == Exit

List ==
  /\ pc = "list"
  /\ \E ok \in BOOLEAN :
       /\ log' = Append(log, Call("List", Namespace, 0, <<>>, "", <<>>, None, 0,
                                  IF ok THEN "Ok" ELSE "Err"))
       /\ failures' = (failures \/ ~ok)
       /\ IF ok
          THEN LET items == cluster[Namespace]
                   js == Retain(items)
                   counted == CommonTags(Segments(js, Definitions(js)), cfg.rank)
               IN  \* a += 1 that leaves u8 panics in a build with overflow
                   \* checks and wraps in one without
                   \/ Goto(Listed(items, counted.map))
                   \/ counted.wrapped /\ Goto(Exit)
          ELSE Goto(ListFailed)
  /\ UNCHANGED <<cfg, checks, next_id, cluster, run, to_delete>>

(***************************************************************************)
(* Lines 205-284: the closure over one definition.                         *)
(***************************************************************************)
\* hc_client.upsert_check with unique = ["name"]: the check of that name is
\* updated, or a check is created under a fresh id.
Existing(name) == {c \in Range(checks) : c.name = name}

UpsertStatus(name) == IF Existing(name) = {} THEN "Created" ELSE "Updated"

UpsertId(name) ==
  IF Existing(name) = {} THEN next_id ELSE (CHOOSE c \in Existing(name) : TRUE).id

Upserted(name) ==
  IF Existing(name) = {} THEN Append(checks, [name |-> name, id |-> next_id]) ELSE checks

\* Lines 240-276: what the closure leaves in the job's containers.
Annotated(containers, env_key, check_id) ==
  IF env_key = None THEN <<>> ELSE RetainMut(containers, env_key[1], check_id)

Reconcile ==
  /\ pc = "reconcile"
  /\ LET k == definitions[i]
         d == describe(jobs[k])[1]
         tags == Tags(d.name, common_tags)
         entry(op, id, res) ==
           Call(op, Namespace, jobs[k].uid, d.name, d.schedule, tags, None, id, res)
     IN  IF cfg.dry_run
         THEN /\ log' = Append(log, entry("Print", 0, "Ok"))
              /\ Goto(AfterClosure(jobs))
              /\ UNCHANGED <<checks, next_id, failures>>
         ELSE \E outcome \in {"Err", "NoId", "Ok"} :
                IF outcome = "Err"
                THEN /\ log' = Append(log, entry("UpsertCheck", 0, "Err"))
                     /\ failures' = TRUE
                     /\ Goto(AfterClosure(jobs))
                     /\ UNCHANGED <<checks, next_id>>
                ELSE /\ checks' = Upserted(d.name)
                     /\ next_id' = IF Existing(d.name) = {} THEN next_id + 1 ELSE next_id
                     /\ log' = Append(log, entry("UpsertCheck",
                                                 IF outcome = "Ok" THEN UpsertId(d.name) ELSE 0,
                                                 UpsertStatus(d.name)))
                     /\ failures' = (failures \/ outcome = "NoId")
                     /\ Goto(AfterClosure(
                          IF outcome = "Ok"
                          THEN [jobs EXCEPT ![k] = WithContainers(@,
                                  Annotated(d.containers, cfg.env_key, UpsertId(d.name)))]
                          ELSE jobs))
  /\ UNCHANGED <<cfg, cluster, run, to_delete>>

(***************************************************************************)
(* Lines 290-300: the write-back of one job.                               *)
(***************************************************************************)
\* Lines 291-296 with a job that has no descriptor written back too.
NeedsReplaceWithoutDescriptor(job) ==
  IF describe(job) = None THEN TRUE ELSE describe(job)[1].containers # <<>>

NeedsReplace(job) ==
  IF describe(job) = None THEN FALSE ELSE describe(job)[1].containers # <<>>

Replaced(items, job) ==
  [x \in DOMAIN items |-> IF items[x].uid = job.uid THEN job ELSE items[x]]

\* Line 299 with an Err of replace dropped and the loop going on.
ReplaceFailedSkippingJob == AfterJob

\* Line 299: `?` on the Err of kube_api.replace returns it from main.
ReplaceFailed == Exit

WriteBack ==
  /\ pc = "writeback"
  /\ IF NeedsReplace(jobs[j])
     THEN \E ok \in BOOLEAN :
            /\ log' = Append(log, Call("Replace", Namespace, jobs[j].uid, jobs[j].name[1], "",
                                       <<>>, Some(jobs[j]), 0, IF ok THEN "Ok" ELSE "Err"))
            /\ failures' = (failures \/ ~ok)
            /\ cluster' = IF ok THEN [cluster EXCEPT ![Namespace] = Replaced(@, jobs[j])]
                          ELSE cluster
            /\ Goto(IF ok THEN AfterJob ELSE ReplaceFailed)
     ELSE /\ Goto(AfterJob)
          /\ UNCHANGED <<log, failures, cluster>>
  /\ UNCHANGED <<cfg, checks, next_id, run, to_delete>>

Next ==
  \/ Integrations
  \/ GetChecks
  \/ DeleteCheck
  \/ List
  \/ Reconcile
  \/ WriteBack

Spec == Init /\ [][Next]_vars

(***************************************************************************)
(* A second invocation of the program against what the first one left in   *)
(* the cluster and in the Healthchecks instance.                           *)
(***************************************************************************)
Rerun ==
  /\ pc = "done"
  /\ run = 1
  /\ run' = 2
  /\ pc' = "integrations"
  /\ t' = 1
  /\ n' = 1
  /\ log' = <<>>
  /\ UNCHANGED <<cfg, checks, next_id, cluster, to_delete, listed, jobs, definitions,
                 common_tags, i, j, failures>>

NextTwice == Next \/ Rerun

SpecTwice == Init /\ [][NextTwice]_vars

(***************************************************************************)
(* The program run over two targets, the first with two namespaces.  The   *)
(* namespaces hold short lists of a job that needs an update of its entry  *)
(* and of a job without a spec.                                            *)
(***************************************************************************)
ManyTargets ==
  << [context |-> "ctx1", namespaces |-> <<"ns1", "ns2">>],
     [context |-> "ctx2", namespaces |-> <<"ns3">>] >>

StaleJob == Described(Some(RetainName), "@hourly", <<Container("c1", Some(<<OV, KY>>))>>)

BareJob == [name |-> Some(RetainName), spec |-> None]

ManyPopulations ==
  { <<>>,
    <<WithUid(StaleJob, 1)>>,
    <<WithUid(StaleJob, 1), WithUid(StaleJob, 2)>>,
    <<WithUid(BareJob, 1), WithUid(StaleJob, 2)>> }

InitMany ==
  /\ cfg \in [dry_run : BOOLEAN, clear_existing_checks : BOOLEAN, all_integrations : {FALSE},
              env_key : {None, Some(EnvKey)}, rank : 0..MaxRank, targets : {ManyTargets}]
  /\ checks = <<RetainCheck, LegacyCheck>>
  /\ next_id = FirstFreshId
  /\ cluster \in [NamespacesOf(cfg.targets) -> ManyPopulations]
  /\ run = 1
  /\ pc = "integrations"
  /\ t = 1
  /\ n = 1
  /\ to_delete = <<>>
  /\ listed = <<>>
  /\ jobs = <<>>
  /\ definitions = <<>>
  /\ common_tags = EmptyMap
  /\ i = 1
  /\ j = 1
  /\ log = <<>>
  /\ failures = FALSE

SpecMany == InitMany /\ [][Next]_vars

(***************************************************************************)
(* Lines 189-211 as a function of the described names and of rank: the     *)
(* vocabulary is folded from a population of names, then the tags of each  *)
(* name are collected and printed.  The populations are short lists over   *)
(* TagNames, and long lists that take a counter to the end of u8.          *)
(***************************************************************************)
TagNames ==
  { RetainName,
    <<"a", DASH, "a">>,
    <<"a", DASH, "job">>,
    <<"job", "job">>,
    <<"b", DASH, DASH, "a">>,
    <<"job">> }

NamedJobs(names) ==
  [k \in DOMAIN names |->
     WithUid(Described(Some(names[k]), "@hourly", <<Container("c1", None)>>), k)]

TagPopulations ==
  UNION { { NamedJobs(f) : f \in [1..len -> TagNames] } : len \in 0..MaxJobs }
  \cup
  { NamedJobs([k \in 1..len |-> <<"a", DASH, "job">>]) : len \in {U8Modulus - 1, U8Modulus} }

InitTags ==
  /\ cfg \in {c \in Configs : c.dry_run /\ ~c.clear_existing_checks /\ ~c.all_integrations
                                /\ c.env_key = None}
  /\ checks = <<>>
  /\ next_id = FirstFreshId
  /\ cluster = [ns \in NamespacesOf(cfg.targets) |-> <<>>]
  /\ run = 1
  /\ pc = "fold"
  /\ t = 1
  /\ n = 1
  /\ to_delete = <<>>
  /\ jobs \in TagPopulations
  /\ listed = jobs
  /\ definitions = Definitions(jobs)
  /\ common_tags = EmptyMap
  /\ i = 1
  /\ j = 1
  /\ log = <<>>
  /\ failures = FALSE

FoldCommonTags ==
  /\ pc = "fold"
  /\ LET counted == CommonTags(Segments(jobs, definitions), cfg.rank)
     IN  \/ /\ common_tags' = counted.map
            /\ pc' = IF definitions = <<>> THEN "collected" ELSE "filter"
         \/ /\ counted.wrapped
            /\ common_tags' = common_tags
            /\ pc' = "failed"
  /\ UNCHANGED <<cfg, checks, next_id, cluster, run, t, n, to_delete, listed, jobs,
                 definitions, i, j, log, failures>>

CollectTags ==
  /\ pc = "filter"
  /\ LET d == describe(jobs[definitions[i]])[1]
     IN  log' = Append(log, Call("Print", Namespace, jobs[definitions[i]].uid, d.name,
                                 d.schedule, Tags(d.name, common_tags), None, 0, "Ok"))
  /\ IF i < Len(definitions)
     THEN i' = i + 1 /\ pc' = pc
     ELSE i' = i /\ pc' = "collected"
  /\ UNCHANGED <<cfg, checks, next_id, cluster, run, t, n, to_delete, listed, jobs,
                 definitions, common_tags, j, failures>>

NextTags == FoldCommonTags \/ CollectTags

SpecTags == InitTags /\ [][NextTags]_vars

(***************************************************************************)
(* Vocabulary of the properties.  These read the job definitions directly  *)
(* and do not go through describe.                                         *)
(***************************************************************************)
HasDescriptor(job) ==
  /\ job.name # None
  /\ job.spec # None
  /\ job.spec[1].job_template.spec # None
  /\ job.spec[1].job_template.spec[1].template.spec # None

NameOf(job) == job.name[1]
ScheduleOf(job) == job.spec[1].schedule
ContainersOf(job) == job.spec[1].job_template.spec[1].template.spec[1].containers

LogOf(op) == {x \in DOMAIN log : log[x].op = op}

Calls(op, ns, uid) == {x \in LogOf(op) : log[x].ns = ns /\ log[x].uid = uid}

\* The job of that uid in a list of jobs (uids are unique within a namespace).
JobOf(js, uid) == js[CHOOSE k \in DOMAIN js : js[k].uid = uid]

InBody == pc \in {"reconcile", "writeback", "done"}

\* common_tags holds the vocabulary of the names in jobs.
VocabularyBuilt == InBody \/ pc \in {"filter", "collected"}

\* The pieces of a string between the occurrences of a delimiter, by position.
Cuts(s, d) == {0, Len(s) + 1} \cup {p \in DOMAIN s : s[p] = d}

\* The cut that follows the cut c.
NextCut(cuts, c) == CHOOSE m \in cuts : m > c /\ \A q \in cuts : q > c => m <= q

RECURSIVE PiecesFrom(_, _, _)
PiecesFrom(s, cuts, c) ==
  IF c > Len(s) THEN <<>>
  ELSE <<SubSeq(s, c + 1, NextCut(cuts, c) - 1)>> \o PiecesFrom(s, cuts, NextCut(cuts, c))

PiecesOf(s, d) == PiecesFrom(s, Cuts(s, d), 0)

\* The pieces of a population of names: (position of the name, position of
\* the piece in the name, piece).
Cells(names) ==
  UNION { LET pieces == PiecesOf(names[a], DASH)
          IN  { <<a, b, pieces[b]>> : b \in DOMAIN pieces } :
          a \in DOMAIN names }

\* How often a segment occurs in a population of names.
Occurrences(seg, names) == Cardinality({c \in Cells(names) : c[3] = seg})

SegmentsIn(names) == {c[3] : c \in Cells(names)}

VocabularyOf(names, rank) ==
  LET cells == Cells(names)
  IN  {seg \in {c[3] : c \in cells} :
         seg # JOB /\ (rank = 0 \/ Cardinality({c \in cells : c[3] = seg}) >= rank)}

\* The names of the jobs that survive retain and describe.
SurvivingNames == [x \in DOMAIN definitions |-> NameOf(jobs[definitions[x]])]

\* Members of a vocabulary among pieces, in order, and their join by one space.
RECURSIVE Members(_, _)
Members(pieces, vocabulary) ==
  IF pieces = <<>> THEN <<>>
  ELSE LET front == Members(SubSeq(pieces, 1, Len(pieces) - 1), vocabulary)
           last == pieces[Len(pieces)]
       IN  IF last \in vocabulary THEN Append(front, last) ELSE front

RECURSIVE JoinedBySpace(_)
JoinedBySpace(pieces) ==
  IF pieces = <<>> THEN <<>>
  ELSE IF Len(pieces) = 1 THEN pieces[1]
  ELSE JoinedBySpace(SubSeq(pieces, 1, Len(pieces) - 1)) \o <<SPACE>> \o pieces[Len(pieces)]

\* The lines that carry computed tags: upserts, and the previews of a dry run.
Tagged == LogOf("UpsertCheck") \cup LogOf("Print")

EnvOf(c) == IF c.env = None THEN <<>> ELSE c.env[1]

HoldsEntry(c, key, id) ==
  \E p \in DOMAIN EnvOf(c) : EnvOf(c)[p] = [name |-> key, value |-> Some(id)]

LacksKey(c, key) == \A p \in DOMAIN EnvOf(c) : EnvOf(c)[p].name # key

\* Upserts of the namespace at hand that returned an identifier.
Identified == {x \in LogOf("UpsertCheck") : log[x].ns = Namespace /\ log[x].id # 0}

(***************************************************************************)
(* C1  Dry-run purity: in a run started with --dry-run, whatever the other *)
(* options and the jobs, no DeleteCheck, UpsertCheck or Replace call is    *)
(* issued; the only remote calls are the reads of channels and of jobs.    *)
(***************************************************************************)
DryRunPurity ==
  cfg.dry_run => \A x \in DOMAIN log : log[x].op \in {"ListChannels", "List", "Print"}

DryRunPurityWitness ==
  /\ cfg.dry_run
  /\ cfg.clear_existing_checks
  /\ cfg.env_key # None
  /\ pc = "done"
  /\ Len(checks) = 2
  /\ LogOf("ListChannels") # {}
  /\ LogOf("List") # {}
  /\ Cardinality(LogOf("Print")) = 2

(***************************************************************************)
(* C2  A failed upsert is not fatal and suppresses the write-back: when    *)
(* UpsertCheck for a job fails or returns no identifier, (a) the job's     *)
(* containers stay as listed, (b) Replace is never called for the job, and *)
(* (c) the later jobs of the namespace are still upserted.                 *)
(***************************************************************************)
FailedUpserts ==
  {x \in LogOf("UpsertCheck") : log[x].res = "Err" \/ log[x].id = 0}

UpsertFailureSkipsWriteBack ==
  \A x \in FailedUpserts :
    /\ (log[x].ns = Namespace /\ InBody) =>
          JobOf(jobs, log[x].uid) = JobOf(listed, log[x].uid)
    /\ Calls("Replace", log[x].ns, log[x].uid) = {}
    /\ (log[x].ns = Namespace /\ pc \in {"writeback", "done"}) =>
          \A k \in DOMAIN jobs :
            HasDescriptor(jobs[k]) => Calls("UpsertCheck", Namespace, jobs[k].uid) # {}

(***************************************************************************)
(* C3  Annotation minimality: with an env key K configured and identifier  *)
(* X returned for a job, a container that already holds (K, X) is left     *)
(* untouched (whatever is written for the job, the container is in it as   *)
(* it was listed), and when every container of the job holds (K, X) no     *)
(* Replace is called for the job.                                          *)
(***************************************************************************)
AnnotationMinimality ==
  (~cfg.dry_run /\ cfg.env_key # None /\ InBody) =>
    \A x \in Identified :
      LET before == ContainersOf(JobOf(listed, log[x].uid))
          written == Calls("Replace", Namespace, log[x].uid)
          clean == {p \in DOMAIN before : HoldsEntry(before[p], cfg.env_key[1], log[x].id)}
      IN  /\ \A p \in clean : \A r \in written :
                before[p] \in Range(ContainersOf(log[r].job[1]))
          /\ clean = DOMAIN before => written = {}

(***************************************************************************)
(* C4  Idempotence: a second run against what the first run left (no       *)
(* remote call failing in either) reports Updated, never Created, for      *)
(* every job, changes no environment entry and calls no Replace.  Stated   *)
(* for the runs without --clear-existing-checks, which deletes the checks  *)
(* of the first run before the second run upserts.                         *)
(***************************************************************************)
Idempotence ==
  (run = 2 /\ ~failures /\ ~cfg.dry_run /\ ~cfg.clear_existing_checks) =>
    /\ \A x \in LogOf("UpsertCheck") : log[x].res = "Updated"
    /\ LogOf("Replace") = {}
    /\ pc \in {"reconcile", "writeback"} =>
         \A k \in DOMAIN jobs :
           HasDescriptor(jobs[k]) =>
             Range(ContainersOf(jobs[k])) \subseteq Range(ContainersOf(JobOf(listed, jobs[k].uid)))

(***************************************************************************)
(* C5  Every scheduled job is reconciled: in a run that is not dry and in  *)
(* which no remote call fails, every job of a namespace that has a         *)
(* descriptor, whatever its name, is the subject of exactly one            *)
(* UpsertCheck call, which carries its name and its schedule.              *)
(***************************************************************************)
UpsertsOf(ns, job) ==
  {x \in Calls("UpsertCheck", ns, job.uid) :
     log[x].name = NameOf(job) /\ log[x].schedule = ScheduleOf(job)}

EveryJobReconciled ==
  (pc = "done" /\ ~cfg.dry_run /\ ~failures) =>
    \A ns \in NamespacesOf(cfg.targets) :
      \A p \in DOMAIN cluster[ns] :
        HasDescriptor(cluster[ns][p]) => Cardinality(UpsertsOf(ns, cluster[ns][p])) = 1

(***************************************************************************)
(* C6  Insert and write once: with an env key K configured and identifier  *)
(* X returned for a job, every container of the job that has no entry      *)
(* named K, its environment list being empty or missing, ends with (K, X)  *)
(* appended after the entries it had, and the job is passed to Replace     *)
(* exactly once in the run.                                                *)
(***************************************************************************)
InsertAndWriteOnce ==
  (pc = "done" /\ ~cfg.dry_run /\ ~failures /\ cfg.env_key # None) =>
    \A x \in Identified :
      LET before == ContainersOf(JobOf(listed, log[x].uid))
          after == ContainersOf(JobOf(cluster[Namespace], log[x].uid))
          entry == [name |-> cfg.env_key[1], value |-> Some(log[x].id)]
      IN  \A p \in DOMAIN before :
            LacksKey(before[p], cfg.env_key[1]) =>
              /\ \E q \in DOMAIN after :
                   /\ after[q].name = before[p].name
                   /\ after[q].env = Some(Append(EnvOf(before[p]), entry))
              /\ Cardinality(Calls("Replace", Namespace, log[x].uid)) = 1

(***************************************************************************)
(* C7  Jobs without a descriptor are never touched: a listed job that      *)
(* lacks its name, its spec, its job-template spec or its pod-template     *)
(* spec adds nothing to the vocabulary, is never upserted (or previewed)   *)
(* and never passed to Replace, and the jobs that are described are still  *)
(* reconciled.                                                             *)
(***************************************************************************)
WithoutDescriptor == {k \in DOMAIN listed : ~HasDescriptor(listed[k])}

DescribedNames ==
  LET described == SelectSeq(listed, LAMBDA job : HasDescriptor(job) /\ RetainJob(job))
  IN  [k \in DOMAIN described |-> NameOf(described[k])]

DescriptorAbsentUntouched ==
  InBody =>
    /\ \A k \in WithoutDescriptor : \A x \in DOMAIN log :
         (log[x].ns = Namespace /\ log[x].op \in {"UpsertCheck", "Print", "Replace"})
           => log[x].uid # listed[k].uid
    /\ DOMAIN common_tags = VocabularyOf(DescribedNames, cfg.rank)
    /\ pc \in {"writeback", "done"} =>
         \A k \in DOMAIN jobs :
           HasDescriptor(jobs[k]) =>
             \E x \in Tagged : log[x].ns = Namespace /\ log[x].uid = jobs[k].uid

DescriptorAbsentUntouchedWitness ==
  /\ pc = "done"
  /\ ~cfg.dry_run
  /\ cfg.rank = 2
  /\ Len(listed) = 2
  /\ listed[1].name = Some(RetainName)
  /\ ~HasDescriptor(listed[1])
  /\ HasDescriptor(listed[2])
  /\ common_tags = EmptyMap
  /\ Calls("UpsertCheck", Namespace, listed[2].uid) # {}
  /\ Calls("Replace", Namespace, listed[2].uid) # {}
  /\ Calls("Replace", Namespace, listed[1].uid) = {}

(***************************************************************************)
(* C8  The segment "job" is never a tag: whatever the population, the rank *)
(* (0 included) and the name, no word of a computed tag string is "job",   *)
(* however often "job" occurs in the population.                           *)
(***************************************************************************)
JobNeverATag ==
  \A x \in Tagged : JOB \notin Range(PiecesOf(log[x].tags, SPACE))

JobNeverATagWitness ==
  /\ cfg.rank = 0
  /\ \E x \in Tagged :
       /\ log[x].name = <<"a", DASH, "job">>
       /\ log[x].tags = <<"a">>
  /\ Occurrences(JOB, SurvivingNames) >= 2

TagString ==
  VocabularyBuilt =>
    \A x \in Tagged :
      log[x].ns = Namespace =>
        /\ log[x].tags = JoinedBySpace(Members(PiecesOf(log[x].name, DASH), DOMAIN common_tags))
        /\ (cfg.rank = 0 /\ log[x].name = RetainName) =>
             log[x].tags =
               <<"sales", SPACE, "au", SPACE, "cleanup", SPACE, "shared", SPACE, "products">>

TagStringWitness ==
  /\ cfg.rank = 0
  /\ \E x \in Tagged :
       /\ log[x].name = RetainName
       /\ log[x].tags =
            <<"sales", SPACE, "au", SPACE, "cleanup", SPACE, "shared", SPACE, "products">>
  /\ \E x \in Tagged :
       /\ log[x].name = <<"a", DASH, "a">>
       /\ log[x].tags = <<"a", SPACE, "a">>

(***************************************************************************)
(* C11  Write-back failure is fail-fast: once a Replace call has failed,   *)
(* no further call is made (so no Replace for the remaining jobs of the    *)
(* namespace), and what was completed before stays as it was: every        *)
(* earlier successful Replace is what the cluster holds for that job,      *)
(* every check an earlier upsert returned is still held by the service,    *)
(* and no job was upserted or replaced twice.                              *)
(***************************************************************************)
FailedReplaces == {x \in LogOf("Replace") : log[x].res = "Err"}

ReplaceFailFast ==
  \A x \in FailedReplaces :
    /\ x = Len(log)
    /\ pc = "failed"
    /\ \A r \in LogOf("Replace") :
         /\ Cardinality(Calls("Replace", log[r].ns, log[r].uid)) = 1
         /\ log[r].res = "Ok" => JobOf(cluster[log[r].ns], log[r].uid) = log[r].job[1]
    /\ \A u \in LogOf("UpsertCheck") :
         /\ Cardinality(Calls("UpsertCheck", log[u].ns, log[u].uid)) = 1
         /\ log[u].id # 0 => [name |-> log[u].name, id |-> log[u].id] \in Range(checks)

ReplaceFailFastWitness ==
  /\ pc = "failed"
  /\ Namespace = "ns2"
  /\ Len(jobs) = 2
  /\ j = 1
  /\ NeedsReplace(jobs[2])
  /\ Calls("Replace", "ns2", jobs[1].uid) \subseteq FailedReplaces
  /\ Calls("Replace", "ns2", jobs[1].uid) # {}
  /\ Calls("Replace", "ns2", jobs[2].uid) = {}
  /\ \E r \in LogOf("Replace") :
       /\ log[r].ns = "ns1"
       /\ log[r].res = "Ok"
       /\ HoldsEntry(ContainersOf(JobOf(cluster["ns1"], log[r].uid))[1], EnvKey, 1)

(***************************************************************************)
(* C12  Bulk clear precedes reconciliation: with --clear-existing-checks   *)
(* and no --dry-run, every DeleteCheck call comes before every List,       *)
(* UpsertCheck and Replace call of the run, and when a DeleteCheck has     *)
(* failed the run is over with no List, UpsertCheck or Replace call made.  *)
(***************************************************************************)
Reconciling == LogOf("List") \cup LogOf("UpsertCheck") \cup LogOf("Replace")

ClearPrecedesReconciliation ==
  (cfg.clear_existing_checks /\ ~cfg.dry_run) =>
    /\ \A d \in LogOf("DeleteCheck") : \A x \in Reconciling : d < x
    /\ (\E d \in LogOf("DeleteCheck") : log[d].res = "Err") =>
         (Reconciling = {} /\ pc = "failed")
    /\ Reconciling # {} => LogOf("ListChecks") # {}

ClearPrecedesReconciliationWitness ==
  /\ cfg.clear_existing_checks
  /\ ~cfg.dry_run
  /\ pc = "done"
  /\ Cardinality(LogOf("DeleteCheck")) = 2
  /\ LogOf("List") # {}
  /\ \E u \in LogOf("UpsertCheck") : log[u].res = "Created" /\ log[u].id = FirstFreshId
  /\ LogOf("Replace") # {}

(***************************************************************************)
(* C13  List failure aborts the run: when List has failed for a namespace, *)
(* that namespace gets no UpsertCheck and no Replace, its List is not made *)
(* again, and no call at all follows the failed List, so no later          *)
(* namespace or target is listed or processed.                             *)
(***************************************************************************)
FailedLists == {x \in LogOf("List") : log[x].res = "Err"}

ListFailureAborts ==
  \A x \in FailedLists :
    /\ pc = "failed"
    /\ \A y \in DOMAIN log : y <= x
    /\ \A y \in DOMAIN log :
         log[y].ns = log[x].ns => (y = x /\ log[y].op \notin {"UpsertCheck", "Replace"})

ListFailureAbortsWitness ==
  /\ pc = "failed"
  /\ Namespace = "ns2"
  /\ \E x \in FailedLists : log[x].ns = "ns2"
  /\ \E u \in LogOf("UpsertCheck") : log[u].ns = "ns1"
  /\ \E k \in DOMAIN cluster["ns2"] : HasDescriptor(cluster["ns2"][k])
  /\ \E k \in DOMAIN cluster["ns3"] : HasDescriptor(cluster["ns3"][k])

(***************************************************************************)
(* C14  The definition written back differs only in the injected entry:    *)
(* with an env key K configured and identifier X returned for a job, the   *)
(* job passed to Replace has the containers of the listed job, in the same *)
(* order, and each container has the entries it had, in the same order,    *)
(* except that the entry named K carries X (overwritten in place, or       *)
(* appended when the container had none); a container that needed no       *)
(* change is still in the definition written back.                         *)
(***************************************************************************)
Injected(env, key, id) ==
  IF \E p \in DOMAIN env : env[p].name = key
  THEN [p \in DOMAIN env |-> IF env[p].name = key THEN [env[p] EXCEPT !.value = Some(id)]
                             ELSE env[p]]
  ELSE Append(env, [name |-> key, value |-> Some(id)])

WrittenBackDiffersOnlyInEntry ==
  (~cfg.dry_run /\ cfg.env_key # None /\ InBody) =>
    \A x \in Identified : \A r \in Calls("Replace", Namespace, log[x].uid) :
      LET before == ContainersOf(JobOf(listed, log[x].uid))
          written == ContainersOf(log[r].job[1])
      IN  /\ Len(written) = Len(before)
          /\ \A p \in DOMAIN before :
               p \in DOMAIN written =>
                 /\ written[p].name = before[p].name
                 /\ EnvOf(written[p]) = Injected(EnvOf(before[p]), cfg.env_key[1], log[x].id)

(***************************************************************************)
(* C15  No env key, no write-back: in a run that is not dry and has no env *)
(* key configured, every described job that reaches the closure is still   *)
(* upserted, no Replace call is issued for any job, and the cluster holds  *)
(* the environment entries it held when listed.                            *)
(***************************************************************************)
NoKeyNoWriteBack ==
  (~cfg.dry_run /\ cfg.env_key = None) =>
    /\ LogOf("Replace") = {}
    /\ InBody => cluster[Namespace] = listed
    /\ pc = "done" =>
         \A k \in DOMAIN jobs :
           HasDescriptor(jobs[k]) => Calls("UpsertCheck", Namespace, jobs[k].uid) # {}

(***************************************************************************)
(* C16  Phase ordering per namespace: the List of a namespace precedes     *)
(* every UpsertCheck of it, the tags of every UpsertCheck are taken from   *)
(* the vocabulary of the complete list, every UpsertCheck of a namespace   *)
(* precedes every Replace of it, and every call of a namespace precedes    *)
(* the List of the next namespace or target.  Calls do not overlap: each   *)
(* is one step of the run, recorded in the log at its position.            *)
(***************************************************************************)
\* The namespaces in the order the run visits them.
RECURSIVE VisitOrder(_, _)
VisitOrder(targets, x) ==
  IF x > Len(targets) THEN <<>> ELSE targets[x].namespaces \o VisitOrder(targets, x + 1)

OfNamespace(ns) == {x \in DOMAIN log : log[x].ns = ns}

\* The names List returned for the namespace at hand that reach the closure.
CompleteListNames ==
  LET reached == SelectSeq(listed, LAMBDA job : HasDescriptor(job) /\ NameOf(job) = RetainName)
  IN  [k \in DOMAIN reached |-> NameOf(reached[k])]

PhaseOrdering ==
  LET order == VisitOrder(cfg.targets, 1)
      turn(x) == CHOOSE p \in DOMAIN order : order[p] = log[x].ns
      remote == {x \in DOMAIN log : log[x].ns # ""}
      lists == LogOf("List")
      upserts == LogOf("UpsertCheck")
      replaces == LogOf("Replace")
      vocabulary == VocabularyOf(CompleteListNames, cfg.rank)
  IN  /\ \A l \in lists : \A m \in lists : log[l].ns = log[m].ns => l = m
      /\ \A u \in upserts :
           /\ \E l \in lists : log[l].ns = log[u].ns /\ l < u
           /\ \A r \in replaces : log[r].ns = log[u].ns => u < r
      /\ \A r \in replaces : \E l \in lists : log[l].ns = log[r].ns /\ l < r
      /\ \A x \in remote : (x + 1) \in remote => turn(x) <= turn(x + 1)
      /\ \A x \in DOMAIN log : x \notin remote => \A y \in remote : x < y
      /\ \* the UpsertCheck just sent carries the tags of the complete list
         (log # <<>> /\ log[Len(log)].op = "UpsertCheck") =>
           log[Len(log)].tags =
             JoinedBySpace(Members(PiecesOf(log[Len(log)].name, DASH), vocabulary))

PhaseOrderingWitness ==
  /\ pc = "done"
  /\ cfg.rank = 2
  /\ \A ns \in NamespacesOf(cfg.targets) :
       /\ Cardinality(OfNamespace(ns) \cap LogOf("UpsertCheck")) = 2
       /\ Cardinality(OfNamespace(ns) \cap LogOf("Replace")) = 2
  /\ \A u \in LogOf("UpsertCheck") : log[u].tags # <<>>

(***************************************************************************)
(* C17  Namespace isolation of tags: the tag string sent or previewed for  *)
(* a job is a function of the rank, of the job's name and of the list of   *)
(* the job's own namespace; whatever the other namespaces and targets      *)
(* hold, it is the string that function gives.                             *)
(***************************************************************************)
\* The names in a namespace's list that reach the closure.
ReachingNames(items) ==
  LET reached == SelectSeq(items, LAMBDA job : HasDescriptor(job) /\ NameOf(job) = RetainName)
  IN  [k \in DOMAIN reached |-> NameOf(reached[k])]

IsolatedTags(rank, items, name) ==
  JoinedBySpace(Members(PiecesOf(name, DASH), VocabularyOf(ReachingNames(items), rank)))

\* Stated on each line as it is produced: the last entry of the log.
NamespaceIsolation ==
  (log # <<>> /\ log[Len(log)].op \in {"UpsertCheck", "Print"}) =>
    LET sent == log[Len(log)]
    IN  sent.tags = IsolatedTags(cfg.rank, cluster[sent.ns], sent.name)

NamespaceIsolationWitness ==
  /\ pc = "done"
  /\ cfg.rank = 2
  /\ Cardinality(OfNamespace("ns1") \cap Tagged) = 2
  /\ Cardinality(OfNamespace("ns2") \cap Tagged) = 1
  /\ Cardinality(OfNamespace("ns3") \cap Tagged) = 2
  /\ \A x \in OfNamespace("ns1") \cap Tagged : log[x].tags # <<>>
  /\ \A x \in OfNamespace("ns2") \cap Tagged : log[x].tags = <<>>

(***************************************************************************)
(* C18  At most one entry per key: with an env key K configured and        *)
(* identifier X returned for a job whose containers each list at most one  *)
(* entry named K (an entry without a literal value included), after the    *)
(* annotation every container of the job has at most one entry named K,    *)
(* and the value of that entry is X.                                       *)
(***************************************************************************)
EntriesOf(c, key) == {p \in DOMAIN EnvOf(c) : EnvOf(c)[p].name = key}

AtMostOneEntryPerKey ==
  (~cfg.dry_run /\ cfg.env_key # None /\ InBody) =>
    \A x \in Identified :
      LET before == ContainersOf(JobOf(listed, log[x].uid))
          after == ContainersOf(JobOf(jobs, log[x].uid))
          key == cfg.env_key[1]
      IN  (\A p \in DOMAIN before : Cardinality(EntriesOf(before[p], key)) <= 1) =>
            \A q \in DOMAIN after :
              /\ Cardinality(EntriesOf(after[q], key)) <= 1
              /\ \A e \in EntriesOf(after[q], key) : EnvOf(after[q])[e].value = Some(log[x].id)

====
